---- MODULE Spec2Model ----
(***************************************************************************)
(* Model of freqtrade/configuration/arguments.py: the Arguments class,     *)
(* its subcommand builder and the default-config rule of _parse_args.      *)
(*                                                                         *)
(* A parser node is the ordered sequence of the dests added to it with     *)
(* add_argument.  A Namespace is a function from key to value; a value is  *)
(* a tagged record so that Python's None, a string, a list and a handler   *)
(* stay distinguishable.                                                   *)
(***************************************************************************)
EXTENDS Integers, Sequences, FiniteSets, TLC

VARIABLES
    args,          \* self.args: [command: 0 or 1 subcommand tokens, config: the --config values]
    parsed_arg,    \* self._parsed_arg: NoNamespace (None) or the Namespace
    parser,        \* self.parser: NoParser before the first build
    cwd_default,   \* whether Path.cwd() / DEFAULT_CONFIG is a file right now
    is_file,       \* what is_file() answered in the latest _parse_args
    outcome,       \* how the latest get_parsed_arg call ended
    returned,      \* the mapping the latest call returned (NoNamespace if none)
    builds,        \* number of _build_subcommands runs so far
    calls          \* number of get_parsed_arg calls so far

vars == <<args, parsed_arg, parser, cwd_default, is_file, outcome, returned, builds, calls>>

----------------------------------------------------------------------------
(* Bounds *)

MaxCalls == 3
MaxConfigFlags == 2

ConfigPaths == {"myfile.json", "other.json"}
InvalidTokens == {"fooinvalid"}

----------------------------------------------------------------------------
(* Values *)

None == [t |-> "None", s |-> <<>>]
Str(v) == [t |-> "str", s |-> <<v>>]
List(xs) == [t |-> "list", s |-> xs]
DeclaredDefault == [t |-> "default", s |-> <<>>]
Handler(fn) == [t |-> "func", s |-> <<fn>>]
Partial(fn, kw) == [t |-> "func", s |-> <<fn, kw>>]

NoNamespace == <<>>
NoParser == <<>>

Range(f) == {f[i] : i \in DOMAIN f}

DEFAULT_CONFIG == "config.json"

----------------------------------------------------------------------------
(* Option lists *)

ARGS_COMMON == <<"verbosity", "logfile", "version", "config", "datadir", "user_data_dir">>

ARGS_STRATEGY == <<"strategy", "strategy_path">>

ARGS_TRADE == <<"db_url", "sd_notify", "dry_run">>

ARGS_COMMON_OPTIMIZE == <<"ticker_interval", "timerange",
                          "max_open_trades", "stake_amount", "fee">>

ARGS_BACKTEST == ARGS_COMMON_OPTIMIZE \o <<"position_stacking", "use_max_market_positions",
                                           "strategy_list", "export", "exportfilename">>

ARGS_HYPEROPT == ARGS_COMMON_OPTIMIZE \o <<"hyperopt", "hyperopt_path",
                                           "position_stacking", "epochs", "spaces",
                                           "use_max_market_positions", "print_all",
                                           "print_colorized", "print_json", "hyperopt_jobs",
                                           "hyperopt_random_state", "hyperopt_min_trades",
                                           "hyperopt_continue", "hyperopt_loss">>

ARGS_EDGE == ARGS_COMMON_OPTIMIZE \o <<"stoploss_range">>

ARGS_LIST_EXCHANGES == <<"print_one_column", "list_exchanges_all">>

ARGS_LIST_TIMEFRAMES == <<"exchange", "print_one_column">>

ARGS_LIST_PAIRS == <<"exchange", "print_list", "list_pairs_print_json", "print_one_column",
                     "print_csv", "base_currencies", "quote_currencies", "list_pairs_all">>

ARGS_CREATE_USERDIR == <<"user_data_dir", "reset">>

ARGS_BUILD_STRATEGY == <<"user_data_dir", "strategy", "template">>

ARGS_BUILD_HYPEROPT == <<"user_data_dir", "hyperopt", "template">>

ARGS_DOWNLOAD_DATA == <<"pairs", "pairs_file", "days", "download_trades", "exchange",
                        "timeframes", "erase">>

ARGS_PLOT_DATAFRAME == <<"pairs", "indicators1", "indicators2", "plot_limit",
                         "db_url", "trade_source", "export", "exportfilename",
                         "timerange", "ticker_interval">>

ARGS_PLOT_PROFIT == <<"pairs", "timerange", "export", "exportfilename", "db_url",
                      "trade_source", "ticker_interval">>

NO_CONF_REQURIED == {"download-data", "list-timeframes", "list-markets", "list-pairs",
                     "plot-dataframe", "plot-profit"}

NO_CONF_ALLOWED == {"create-userdir", "list-exchanges", "new-hyperopt", "new-strategy"}

----------------------------------------------------------------------------
(* _build_args and _build_subcommands *)

\* A _build_args that loses the last name of the option list.
BuildArgsDropLast(optionlist, node) ==
    IF optionlist = <<>> THEN node
    ELSE node \o SubSeq(optionlist, 1, Len(optionlist) - 1)

\* _build_args: one add_argument(dest=val) per name, in order.
RECURSIVE BuildArgs(_, _)
BuildArgs(optionlist, node) ==
    IF optionlist = <<>> THEN node
    ELSE BuildArgs(Tail(optionlist), Append(node, Head(optionlist)))

common_parser == BuildArgs(ARGS_COMMON, <<>>)

strategy_parser == BuildArgs(ARGS_STRATEGY, <<>>)

\* parents= with the common parser attached to every subcommand.
ParentsAllCommon(name) ==
    IF name \in {"trade", "backtesting", "edge", "hyperopt", "plot-dataframe"}
    THEN <<"_common_parser", "_strategy_parser">>
    ELSE <<"_common_parser">>

\* The parents= argument of each subparsers.add_parser call.
Parents(name) ==
    IF name \in {"trade", "backtesting", "edge", "hyperopt", "plot-dataframe"}
    THEN <<"_common_parser", "_strategy_parser">>
    ELSE IF name \in {"list-exchanges", "list-timeframes", "list-markets", "list-pairs",
                      "download-data", "plot-profit"}
    THEN <<"_common_parser">>
    ELSE <<>>

\* set_defaults(func=...) with list-pairs bound like list-markets.
FuncSamePartial(name) ==
    IF name \in {"list-markets", "list-pairs"}
    THEN Partial("start_list_markets", "pairs_only=False")
    ELSE Handler(name)

\* The func= of each set_defaults call.
Func(name) ==
    CASE name = "trade" -> Handler("start_trading")
      [] name = "backtesting" -> Handler("start_backtesting")
      [] name = "edge" -> Handler("start_edge")
      [] name = "hyperopt" -> Handler("start_hyperopt")
      [] name = "create-userdir" -> Handler("start_create_userdir")
      [] name = "new-strategy" -> Handler("start_new_strategy")
      [] name = "new-hyperopt" -> Handler("start_new_hyperopt")
      [] name = "list-exchanges" -> Handler("start_list_exchanges")
      [] name = "list-timeframes" -> Handler("start_list_timeframes")
      [] name = "list-markets" -> Partial("start_list_markets", "pairs_only=False")
      [] name = "list-pairs" -> Partial("start_list_markets", "pairs_only=True")
      [] name = "download-data" -> Handler("start_download_data")
      [] name = "plot-dataframe" -> Handler("start_plot_dataframe")
      [] name = "plot-profit" -> Handler("start_plot_profit")

\* The optionlist= of each subcommand's _build_args call.
OptionList(name) ==
    CASE name = "trade" -> ARGS_TRADE
      [] name = "backtesting" -> ARGS_BACKTEST
      [] name = "edge" -> ARGS_EDGE
      [] name = "hyperopt" -> ARGS_HYPEROPT
      [] name = "create-userdir" -> ARGS_CREATE_USERDIR
      [] name = "new-strategy" -> ARGS_BUILD_STRATEGY
      [] name = "new-hyperopt" -> ARGS_BUILD_HYPEROPT
      [] name = "list-exchanges" -> ARGS_LIST_EXCHANGES
      [] name = "list-timeframes" -> ARGS_LIST_TIMEFRAMES
      [] name = "list-markets" -> ARGS_LIST_PAIRS
      [] name = "list-pairs" -> ARGS_LIST_PAIRS
      [] name = "download-data" -> ARGS_DOWNLOAD_DATA
      [] name = "plot-dataframe" -> ARGS_PLOT_DATAFRAME
      [] name = "plot-profit" -> ARGS_PLOT_PROFIT

\* The subcommands in the order _build_subcommands adds them.
Subcommands == <<"trade", "backtesting", "edge", "hyperopt", "create-userdir",
                 "new-strategy", "new-hyperopt", "list-exchanges", "list-timeframes",
                 "list-markets", "list-pairs", "download-data", "plot-dataframe",
                 "plot-profit">>

\* argparse copies the arguments of every parent, in order, into the new parser.
RECURSIVE CopyParents(_)
CopyParents(parents) ==
    IF parents = <<>> THEN <<>>
    ELSE (IF Head(parents) = "_common_parser" THEN common_parser ELSE strategy_parser)
         \o CopyParents(Tail(parents))

\* add_parser(name, parents=...), set_defaults(func=...), _build_args(optionlist, cmd).
AddSubcommand(name) ==
    [name |-> name,
     func |-> Func(name),
     options |-> BuildArgs(OptionList(name), CopyParents(Parents(name)))]

RECURSIVE AddSubcommands(_, _)
AddSubcommands(names, subparsers) ==
    IF names = <<>> THEN subparsers
    ELSE AddSubcommands(Tail(names), Append(subparsers, AddSubcommand(Head(names))))

\* _build_subcommands: a fresh self.parser with 'version' and all subcommands.
BuildSubcommands ==
    [options |-> BuildArgs(<<"version">>, <<>>),
     subparsers |-> AddSubcommands(Subcommands, <<>>)]

----------------------------------------------------------------------------
(* parse_args and the default-config rule *)

Choices(p) == {p.subparsers[i].name : i \in DOMAIN p.subparsers}

Node(p, name) == CHOOSE n \in Range(p.subparsers) : n.name = name

\* The keys a parser node's options put into the Namespace.
NamespaceKeys(options) == Range(options)

\* The Namespace of a selected subcommand.
SubNamespace(n, a) ==
    [k \in NamespaceKeys(n.options) \cup {"command", "func"} |->
        IF k = "command" THEN Str(n.name)
        ELSE IF k = "func" THEN n.func
        ELSE IF k = "config" THEN (IF a.config = <<>> THEN None ELSE List(a.config))
        ELSE DeclaredDefault]

\* A parse_args that takes an unknown subcommand token for no subcommand.
ParseArgsLenient(p, a) ==
    IF a.command = <<>> \/ a.command[1] \notin Choices(p)
    THEN [error |-> a.config # <<>>, ns |-> [k \in {"command"} |-> None]]
    ELSE LET n == Node(p, a.command[1]) IN
         IF a.config # <<>> /\ "config" \notin Range(n.options)
         THEN [error |-> TRUE, ns |-> NoNamespace]
         ELSE [error |-> FALSE, ns |-> SubNamespace(n, a)]

\* A parse_args whose subparsers action has required=True.
ParseArgsRequired(p, a) ==
    IF a.command = <<>> \/ a.command[1] \notin Choices(p)
    THEN [error |-> TRUE, ns |-> NoNamespace]
    ELSE LET n == Node(p, a.command[1]) IN
         IF a.config # <<>> /\ "config" \notin Range(n.options)
         THEN [error |-> TRUE, ns |-> NoNamespace]
         ELSE [error |-> FALSE, ns |-> SubNamespace(n, a)]

\* A parse_args whose append options default to an empty list.
ParseArgsEmptyList(p, a) ==
    IF a.command = <<>>
    THEN [error |-> a.config # <<>>, ns |-> [k \in {"command"} |-> None]]
    ELSE IF a.command[1] \notin Choices(p)
    THEN [error |-> TRUE, ns |-> NoNamespace]
    ELSE LET n == Node(p, a.command[1]) IN
         IF a.config # <<>> /\ "config" \notin Range(n.options)
         THEN [error |-> TRUE, ns |-> NoNamespace]
         ELSE [error |-> FALSE,
               ns |-> [k \in DOMAIN SubNamespace(n, a) |->
                          IF k = "config" THEN List(a.config) ELSE SubNamespace(n, a)[k]]]

\* self.parser.parse_args(self.args): error is the SystemExit argparse raises
\* on a usage error (invalid subcommand choice, unrecognized --config).
ParseArgs(p, a) ==
    IF a.command = <<>>
    THEN [error |-> a.config # <<>>, ns |-> [k \in {"command"} |-> None]]
    ELSE IF a.command[1] \notin Choices(p)
    THEN [error |-> TRUE, ns |-> NoNamespace]
    ELSE LET n == Node(p, a.command[1]) IN
         IF a.config # <<>> /\ "config" \notin Range(n.options)
         THEN [error |-> TRUE, ns |-> NoNamespace]
         ELSE [error |-> FALSE, ns |-> SubNamespace(n, a)]

InNoConfRequired(ns) ==
    "command" \in DOMAIN ns /\ \E c \in NO_CONF_REQURIED : ns["command"] = Str(c)

\* The rule without the exemption of the no-config-required commands.
DefaultConfigAlways(ns, file) ==
    IF "config" \in DOMAIN ns /\ ns["config"] = None
    THEN [ns EXCEPT !["config"] = List(<<DEFAULT_CONFIG>>)]
    ELSE ns

\* The rule with 'and' in place of 'or'.
DefaultConfigAnd(ns, file) ==
    IF "config" \in DOMAIN ns /\ ns["config"] = None
       /\ (file /\ ~InNoConfRequired(ns))
    THEN [ns EXCEPT !["config"] = List(<<DEFAULT_CONFIG>>)]
    ELSE ns

\* The rule without the 'config is None' test.
DefaultConfigOverwrite(ns, file) ==
    IF "config" \in DOMAIN ns
       /\ (file \/ ~InNoConfRequired(ns))
    THEN [ns EXCEPT !["config"] = List(<<DEFAULT_CONFIG>>)]
    ELSE ns

\* The if statement of _parse_args; file is the answer of is_file().
DefaultConfig(ns, file) ==
    IF "config" \in DOMAIN ns /\ ns["config"] = None
       /\ (file \/ ~InNoConfRequired(ns))
    THEN [ns EXCEPT !["config"] = List(<<DEFAULT_CONFIG>>)]
    ELSE ns

----------------------------------------------------------------------------
(* The Arguments object *)

ConfigFlags == UNION {[1..n -> ConfigPaths] : n \in 0..MaxConfigFlags}

Tokens == Range(Subcommands) \cup InvalidTokens

ArgLists == [command : {<<>>} \cup {<<t>> : t \in Tokens}, config : ConfigFlags]

\* __init__
Init ==
    /\ args \in ArgLists
    /\ parsed_arg = NoNamespace
    /\ parser = NoParser
    /\ cwd_default \in BOOLEAN
    /\ is_file = FALSE
    /\ outcome = "none"
    /\ returned = NoNamespace
    /\ builds = 0
    /\ calls = 0

\* A guard that is always true.
NotParsedAlways == TRUE

\* if self._parsed_arg is None
NotParsed == parsed_arg = NoNamespace

\* get_parsed_arg, first branch: build, parse, keep the Namespace, return it.
GetParsedArgParse ==
    /\ calls < MaxCalls
    /\ NotParsed
    /\ LET p == BuildSubcommands
           r == ParseArgs(p, args)
       IN /\ parser' = p
          /\ builds' = builds + 1
          /\ is_file' = cwd_default
          /\ IF r.error
             THEN /\ outcome' = "UsageError"
                  /\ returned' = NoNamespace
                  /\ UNCHANGED parsed_arg
             ELSE /\ outcome' = "returned"
                  /\ parsed_arg' = DefaultConfig(r.ns, cwd_default)
                  /\ returned' = parsed_arg'
    /\ calls' = calls + 1
    /\ UNCHANGED <<args, cwd_default>>

\* get_parsed_arg, the Namespace is already there: return it.
GetParsedArgCached ==
    /\ calls < MaxCalls
    /\ ~NotParsed
    /\ outcome' = "returned"
    /\ returned' = parsed_arg
    /\ calls' = calls + 1
    /\ UNCHANGED <<args, parsed_arg, parser, cwd_default, is_file, builds>>

\* The default config file is created in or removed from the working directory.
CwdChange ==
    /\ cwd_default' = ~cwd_default
    /\ UNCHANGED <<args, parsed_arg, parser, is_file, outcome, returned, builds, calls>>

Next == GetParsedArgParse \/ GetParsedArgCached \/ CwdChange

Spec == Init /\ [][Next]_vars

----------------------------------------------------------------------------
(* Properties *)

Returned == outcome = "returned"

NoFlag == args.config = <<>>

Selected(name) == args.command = <<name>>

Registered == args.command # <<>> /\ args.command[1] \in Range(Subcommands)

Injected == List(<<DEFAULT_CONFIG>>)

NoConfigKey == {"create-userdir", "new-hyperopt", "new-strategy"}

Group(g) == IF g = "_common_parser" THEN ARGS_COMMON ELSE ARGS_STRATEGY

\* The union a subcommand declares: its parents' groups and its own list.
DeclaredUnion(name) ==
    UNION {Range(Group(g)) : g \in Range(Parents(name))} \cup Range(OptionList(name))

DeclaredLen(name) ==
    Len(OptionList(name))
    + (IF "_common_parser" \in Range(Parents(name)) THEN Len(ARGS_COMMON) ELSE 0)
    + (IF "_strategy_parser" \in Range(Parents(name)) THEN Len(ARGS_STRATEGY) ELSE 0)

\* C1: for a returned mapping with a config key and no --config flag, config
\* is [DEFAULT_CONFIG] exactly when the default file existed at parse time or
\* the command is not in NO_CONF_REQURIED, and is None (unset) otherwise; so
\* without the file trade gets [DEFAULT_CONFIG] and download-data stays unset.
C1_DefaultConfigRule ==
    (Returned /\ "config" \in DOMAIN returned /\ NoFlag) =>
        /\ (returned["config"] = Injected)
               <=> (is_file \/ args.command[1] \notin NO_CONF_REQURIED)
        /\ returned["config"] \in {Injected, None}
        /\ (Selected("trade") /\ ~is_file) => returned["config"] = Injected
        /\ (Selected("download-data") /\ ~is_file) => returned["config"] = None

C1_Witness ==
    /\ Returned /\ NoFlag /\ ~is_file
    /\ Selected("download-data")
    /\ "config" \in DOMAIN returned /\ returned["config"] = None

\* C2 as stated: every command of NO_CONF_ALLOWED returns a mapping without a
\* config key, which the default-config rule therefore leaves as parsed.
C2_NoConfAllowedHaveNoConfigKey ==
    (Returned /\ args.command # <<>> /\ args.command[1] \in NO_CONF_ALLOWED) =>
        /\ "config" \notin DOMAIN returned
        /\ returned = ParseArgs(parser, args).ns

\* C2 amended: create-userdir, new-hyperopt and new-strategy return a mapping
\* without a config key, left as parsed whatever the file system holds;
\* list-exchanges inherits the common parser, has the config key, and with no
\* --config flag gets [DEFAULT_CONFIG] whether or not the file exists.
C2_ThreeCommandsHaveNoConfigKey ==
    /\ (Returned /\ args.command # <<>> /\ args.command[1] \in NoConfigKey) =>
           /\ "config" \notin DOMAIN returned
           /\ returned = ParseArgs(parser, args).ns
    /\ (Returned /\ Selected("list-exchanges")) =>
           /\ "config" \in DOMAIN returned
           /\ NoFlag => returned["config"] = Injected

C2_Witness ==
    /\ Returned /\ Selected("create-userdir") /\ is_file
    /\ "config" \notin DOMAIN returned
    /\ "user_data_dir" \in DOMAIN returned

\* C3 as stated: with the default file present and no --config flag, every
\* one of the 14 subcommands returns config = [DEFAULT_CONFIG].
C3_EveryCommandGetsDefault ==
    (Returned /\ Registered /\ NoFlag /\ is_file) =>
        "config" \in DOMAIN returned /\ returned["config"] = Injected

\* C3 amended: with the default file present and no --config flag, the 11
\* subcommands that inherit the common parser return config =
\* [DEFAULT_CONFIG]; create-userdir, new-strategy and new-hyperopt return a
\* mapping with no config key.
C3_CommonCommandsGetDefault ==
    (Returned /\ Registered /\ NoFlag /\ is_file) =>
        IF args.command[1] \in NoConfigKey
        THEN "config" \notin DOMAIN returned
        ELSE "config" \in DOMAIN returned /\ returned["config"] = Injected

C3_Witness ==
    /\ Returned /\ NoFlag /\ is_file
    /\ Selected("plot-profit")
    /\ returned["config"] = Injected

\* C4: a --config value given on the command line is what the returned
\* mapping holds, whatever the command and whether or not the default file
\* exists; --config myfile.json gives ['myfile.json'].
C4_ExplicitConfigKept ==
    (Returned /\ ~NoFlag) =>
        /\ "config" \in DOMAIN returned
        /\ returned["config"] = List(args.config)
        /\ args.config = <<"myfile.json">> => returned["config"] = List(<<"myfile.json">>)

C4_Witness ==
    /\ Returned /\ is_file
    /\ args.config = <<"myfile.json">>
    /\ Selected("trade")
    /\ returned["config"] = List(<<"myfile.json">>)

C6_UnknownSubcommandIsUsageError ==
    (calls > 0 /\ args.command # <<>> /\ args.command[1] \notin Range(Subcommands)) =>
        /\ outcome = "UsageError"
        /\ returned = NoNamespace
        /\ parsed_arg = NoNamespace

C6_Witness ==
    /\ calls > 0
    /\ Selected("fooinvalid")
    /\ outcome = "UsageError"
    /\ returned = NoNamespace

\* C7 as stated: with no subcommand token the call returns a mapping that has
\* neither a command key nor a func key.
C7_NoSubcommandLeavesCommandAbsent ==
    (calls > 0 /\ args.command = <<>>) =>
        /\ Returned
        /\ "command" \notin DOMAIN returned
        /\ "func" \notin DOMAIN returned

\* C7 amended: with an empty argument list (no subcommand token, no option)
\* the call returns a mapping in which command is present with the value None
\* and func is absent.
C7_NoSubcommandCommandIsNone ==
    (calls > 0 /\ args.command = <<>> /\ NoFlag) =>
        /\ Returned
        /\ "command" \in DOMAIN returned
        /\ returned["command"] = None
        /\ "func" \notin DOMAIN returned

C7_Witness ==
    /\ calls > 0 /\ args.command = <<>> /\ NoFlag
    /\ Returned
    /\ returned["command"] = None

\* C8: list-markets and list-pairs accept the same options, the common group
\* plus ARGS_LIST_PAIRS, and are bound to start_list_markets with
\* pairs_only=False and pairs_only=True respectively.
C8_ListMarketsAndListPairs ==
    /\ parser # NoParser =>
           LET m == Node(parser, "list-markets")
               q == Node(parser, "list-pairs")
           IN /\ m.options = q.options
              /\ Range(m.options) = Range(ARGS_COMMON) \cup Range(ARGS_LIST_PAIRS)
              /\ m.func = Partial("start_list_markets", "pairs_only=False")
              /\ q.func = Partial("start_list_markets", "pairs_only=True")
    /\ (Returned /\ Selected("list-markets")) =>
           returned["func"] = Partial("start_list_markets", "pairs_only=False")
    /\ (Returned /\ Selected("list-pairs")) =>
           returned["func"] = Partial("start_list_markets", "pairs_only=True")

C8_Witness ==
    /\ Returned /\ Selected("list-pairs")
    /\ returned["func"] = Partial("start_list_markets", "pairs_only=True")
    /\ DOMAIN returned \ {"command", "func"} = Range(ARGS_COMMON) \cup Range(ARGS_LIST_PAIRS)

\* C9 as stated: a config option the user did not give is a list in every
\* returned mapping that has the key, never None.
C9_UnsetConfigIsList ==
    (Returned /\ NoFlag /\ "config" \in DOMAIN returned) =>
        returned["config"].t = "list"

\* C9 amended: for a command that inherits the common parser, a config option
\* the user did not give is always a present key; its value is None when the
\* default is not injected (no default file and a NO_CONF_REQURIED command)
\* and [DEFAULT_CONFIG] when it is, never an empty list.
C9_UnsetConfigIsNoneOrDefault ==
    (Returned /\ Registered /\ NoFlag /\ args.command[1] \notin NoConfigKey) =>
        /\ "config" \in DOMAIN returned
        /\ returned["config"] # List(<<>>)
        /\ (~is_file /\ args.command[1] \in NO_CONF_REQURIED) => returned["config"] = None
        /\ returned["config"] # None => returned["config"] = Injected

C9_Witness ==
    /\ Returned /\ NoFlag /\ ~is_file
    /\ Selected("list-pairs")
    /\ "config" \in DOMAIN returned
    /\ returned["config"] = None
    /\ calls > 1

\* C10 as stated: once get_parsed_arg has been called, _build_subcommands has
\* run exactly once, however many calls followed and however they ended.
C10_BuildRunsOnce ==
    calls > 0 => builds = 1

\* C10 amended: _build_subcommands runs once in every call that finds no kept
\* Namespace: exactly once, in the first call, when that call succeeds, after
\* which every call reuses the result; and once more in every call that
\* follows a UsageError, each time replacing the registry by a fresh one of
\* the same 14 subcommands.
C10_BuildRunsOncePerUnparsedCall ==
    /\ parsed_arg # NoNamespace => builds = 1
    /\ parsed_arg = NoNamespace => builds = calls
    /\ parser # NoParser => Len(parser.subparsers) = Len(Subcommands)

C10_Witness ==
    /\ calls = MaxCalls
    /\ builds = 1
    /\ parsed_arg # NoNamespace
    /\ Returned

====
